---- MODULE Spec2Model ----
(***************************************************************************)
(* A model of MCPClientManager (bend/core/manager.py): the supervisor of   *)
(* MCP server child processes.  The manager runs on one asyncio event      *)
(* loop, so every action below is the code that runs between two           *)
(* suspension points (an await that yields) of one coroutine.              *)
(*                                                                         *)
(* Children, the executor threads doing the pipe I/O, the 10 s timers and  *)
(* the configuration file are the environment.                             *)
(***************************************************************************)
EXTENDS Integers, Sequences, FiniteSets, TLC

\* ------------------------------------------------------------------ bounds
\* start_server calls made in one behaviour.
MaxStarts == 1
\* call_tool, read_resource and get_prompt calls made in one behaviour.
MaxCalls == 1
\* Longest list a child returns from tools/list, resources/list, prompts/list.
MaxItems == 1
\* load_config calls after construction.
MaxReloads == 1
\* stop_server calls made by callers in one behaviour.
MaxStops == 1
\* start_server and stop_server calls in the behaviours that start or stop a
\* server more than once.
MaxStartsTwice == 2
MaxStopsTwice == 2
\* /events requests served at once.
MaxSubscribers == 2

\* ------------------------------------------------------------------ values
ServerIds == {"demo"}

\* The ids of the documents that replace one another on a reload.
FleetIds == {"a", "b", "c"}

\* Every id a key of the manager's dicts can be.
AllIds == ServerIds \cup FleetIds

\* Optional fields of MCPServerStatus that hold None.
None == 0

\* The programs a descriptor's command can name: the stub child of the
\* handshake scenario, a child free to answer or exit as it likes, a child
\* that answers every request in time and never exits on its own, and a child
\* that ignores SIGTERM.
StubCommand == "echo-mcp"
AnyCommand == "any-mcp"
GoodCommand == "good-mcp"
DeafCommand == "deaf-mcp"

VARIABLES
    config_file,        \* the file at config_path: whether it exists, parses, and its mcpServers
    servers,            \* self.servers: id -> MCPServerConfig
    server_status,      \* self.server_status: id -> MCPServerStatus
    processes,          \* self.processes: id -> child (a Popen object)
    tools,              \* self.tools: id -> list of MCPTool
    resources,          \* self.resources: id -> list of MCPResource
    prompts,            \* self.prompts: id -> list of MCPPrompt
    request_counters,   \* self.request_counters: id -> int
    pending_requests,   \* self.pending_requests: id -> (request id -> the task awaiting the Future)
    event_queue,        \* self.event_queue, every event put so far, in order
    children,           \* the child processes spawned so far, by pid
    tasks,              \* the coroutines calling into the manager
    assigned,           \* history: per server, the request ids in the order they were assigned
    reloads,            \* history: load_config calls made after construction
    subscribers         \* the event generators of the /events requests being served

vars == <<config_file, servers, server_status, processes, tools, resources, prompts,
          request_counters, pending_requests, event_queue, children, tasks, assigned,
          reloads, subscribers>>

\* ------------------------------------------------------------------ data
\* MCPServerConfig, the fields the manager's control flow reads.
MCPServerConfig(command, auto_start) ==
    [command |-> command, auto_start |-> auto_start]

\* MCPServerStatus(server_id=..., status="stopped") with the dataclass defaults.
MCPServerStatus(server_id) ==
    [server_id |-> server_id, status |-> "stopped", pid |-> None, started_at |-> None,
     last_error |-> "None", tools_count |-> 0, resources_count |-> 0, prompts_count |-> 0]

\* The configuration document of the handshake scenario.
DocDemo == [s \in {"demo"} |-> MCPServerConfig(StubCommand, TRUE)]

\* A document whose server may behave in any way.
DocAny == [s \in {"demo"} |-> MCPServerConfig(AnyCommand, FALSE)]

\* A document whose server answers every request and stays up.
DocGood == [s \in {"demo"} |-> MCPServerConfig(GoodCommand, FALSE)]

\* The documents of the reload scenario: servers a and b, then b and c.
DocAB == [s \in {"a", "b"} |->
            MCPServerConfig(IF s = "a" THEN StubCommand ELSE DeafCommand, TRUE)]

DocBC == [s \in {"b", "c"} |->
            MCPServerConfig(IF s = "b" THEN DeafCommand ELSE StubCommand, s = "b")]

\* A document with two servers to start automatically and one not.
DocAuto == [s \in {"a", "b", "c"} |->
            MCPServerConfig(IF s = "a" THEN GoodCommand ELSE StubCommand, s # "c")]

\* The file at config_path: a JSON document with these mcpServers, a file that
\* is not JSON, or no file.
ConfigFile(doc) == [exists |-> TRUE, json |-> TRUE, mcpServers |-> doc]

InvalidFile == [exists |-> TRUE, json |-> FALSE, mcpServers |-> << >>]

AbsentFile == [exists |-> FALSE, json |-> FALSE, mcpServers |-> << >>]

\* An event as _send_event builds it.  task is history: the caller task that
\* emitted it (0 for none); the payload keeps the server id and the counts.
Event(type, server_id, task, data) ==
    [type |-> type, server_id |-> server_id, task |-> task, data |-> data]

\* asyncio.Queue(): maxsize is 0, which asyncio takes as no limit.
QueueMaxsize == 0

\* The number of events the subscribers have taken from the queue.
RECURSIVE Taken(_)
Taken(subs) == IF subs = <<>> THEN 0 ELSE Len(Head(subs).received) + Taken(Tail(subs))

\* event_queue.qsize(): the events put and not yet taken.
Queued(queue) == Len(queue) - Taken(subscribers)

\* _send_event: put_nowait on the queue; QueueFull is caught and the event is
\* dropped.
SendEvent(queue, event) ==
    IF QueueMaxsize > 0 /\ Queued(queue) >= QueueMaxsize THEN queue ELSE Append(queue, event)

\* A dict without one key.
Without(f, k) == [x \in DOMAIN f \ {k} |-> f[x]]

\* A dict with one key set.
With(f, k, v) == [x \in DOMAIN f \cup {k} |-> IF x = k THEN v ELSE f[x]]


\* ------------------------------------------------------------------ children
\* The names a child gives the entries of its lists; one holds the text
\* read_stdout looks for.
ItemNames == {"echo", "DOSKEY"}

\* The lists a child can return: every sequence of at most MaxItems names.
ItemLists == UNION {[1..n -> ItemNames] : n \in 0..MaxItems}

\* A line a child writes to stdout: a JSON-RPC reply with an id, with either an
\* "error" member or a "result" holding a list (tools, resources, prompts or
\* contents; empty for the other methods).
Reply(id, error, items) == [id |-> id, error |-> error, items |-> items]

NoResponse == Reply(0, FALSE, <<>>)

ListMethods == {"tools/list", "resources/list", "prompts/list"}

\* What a child running `command` may answer to `method`.  The stub answers
\* initialize, the three list requests and tools/call, and nothing else, and so
\* does the child that ignores SIGTERM; the child that answers every request
\* answers a list request with an empty list or with one entry, and every
\* other method with an empty result; the last child answers anything with a
\* result or an error.
Answers(command, method) ==
    IF command = GoodCommand
    THEN IF method \in ListMethods
         THEN {[error |-> FALSE, items |-> l] : l \in {<<>>, <<"echo">>}}
         ELSE {[error |-> FALSE, items |-> <<>>]}
    ELSE IF command # AnyCommand
    THEN CASE method = "initialize"     -> {[error |-> FALSE, items |-> <<>>]}
           [] method = "tools/list"     -> {[error |-> FALSE, items |-> <<"echo">>]}
           [] method = "resources/list" -> {[error |-> FALSE, items |-> <<>>]}
           [] method = "prompts/list"   -> {[error |-> FALSE, items |-> <<>>]}
           [] method = "tools/call"     -> {[error |-> FALSE, items |-> <<>>]}
           [] OTHER                     -> {}
    ELSE IF method \in ListMethods \cup {"resources/read"}
         THEN {[error |-> TRUE, items |-> <<>>]}
              \cup {[error |-> FALSE, items |-> l] : l \in ItemLists}
         ELSE {[error |-> TRUE, items |-> <<>>], [error |-> FALSE, items |-> <<>>]}

\* Popen(...): a running child with empty pipes; its output monitor is created
\* by start_server right after.  returncode is "None" while it runs, then
\* "exit" (it exited on its own), "signal" (SIGTERM ended it) or "killed"
\* (SIGKILL ended it); signalled: SIGTERM was sent to it.
Popen(server_id, command) ==
    [sid |-> server_id, returncode |-> "None", command |-> command, signalled |-> FALSE,
     inbox |-> {}, pipe |-> <<>>, monitor |-> "active"]

\* process.poll() is None
Alive(ch, c) == ch[c].returncode = "None"

\* The child is gone: it reads and writes no more.  Of the lines it had written,
\* only the one a readline call was already returning can still be handled:
\* read_stdout tests poll() before each readline.
Exited(ch, c, returncode) ==
    [ch EXCEPT ![c].returncode = returncode, ![c].inbox = {},
               ![c].pipe = IF @ = <<>> THEN <<>> ELSE <<Head(@)>>]

\* process.terminate(): SIGTERM is sent and terminate returns; when the child
\* exits on it, if it does, is the child's business.
Terminate(ch, c) ==
    IF Alive(ch, c) THEN [ch EXCEPT ![c].signalled = TRUE] ELSE ch

\* Mutant of TerminateWaitKill: process.kill() at once, without terminate().
KillAtOnce(ch, c) ==
    IF Alive(ch, c) THEN Exited(ch, c, "killed") ELSE ch

\* process.terminate(); process.wait(timeout=5), and process.kill() if the
\* child has not exited by then, as the child that ignores SIGTERM has not:
\* either way the child is gone.
TerminateWaitKill(ch, c) ==
    IF Alive(ch, c)
    THEN Exited(Terminate(ch, c), c,
                IF ch[c].command = DeafCommand THEN "killed" ELSE "signal")
    ELSE ch

\* ------------------------------------------------------------------ tasks
\* A coroutine that called start_server, stop_server, call_tool, read_resource or
\* get_prompt.
\* stage is the method of its current _send_message call; pc is the await it is
\* suspended at ("write", "flush", "wait") or "done"; fut is the state of its
\* Future; child is the Popen object _send_message took from self.processes.
\* ret and error are what the operation returned or raised.
Task(op, server_id) ==
    [op |-> op, sid |-> server_id, stage |-> "none", pc |-> "done", fut |-> "none",
     id |-> 0, child |-> 0, response |-> NoResponse, ret |-> "none", error |-> "None"]

\* The locals of a coroutine that has finished are gone.
Finished(task) ==
    [task EXCEPT !.stage = "none", !.pc = "done", !.fut = "none", !.id = 0, !.child = 0,
                 !.response = NoResponse]

\* The number of calls of the operations `ops` made so far.
Calls(ops) == Cardinality({t \in DOMAIN tasks : tasks[t].op \in ops})

\* return from the operation
Returned(task, ret) == [Finished(task) EXCEPT !.ret = ret]

\* raise out of the operation
Raised(task, error) == [Finished(task) EXCEPT !.ret = "raised", !.error = error]


\* ------------------------------------------------------------------ Init
\* The state after MCPClientManager(config_path) with `doc` at config_path:
\* __init__ ends with load_config().
Constructed(doc) ==
    /\ config_file = ConfigFile(doc)
    /\ servers = doc
    /\ server_status = [s \in DOMAIN doc |-> MCPServerStatus(s)]
    /\ processes = << >>
    /\ tools = [s \in AllIds |-> <<>>]
    /\ resources = [s \in AllIds |-> <<>>]
    /\ prompts = [s \in AllIds |-> <<>>]
    /\ request_counters = [s \in AllIds |-> 0]
    /\ pending_requests = [s \in AllIds |-> << >>]
    /\ event_queue = <<Event("config_loaded", "-", 0, <<>>)>>
    /\ children = <<>>
    /\ tasks = <<>>
    /\ assigned = [s \in AllIds |-> <<>>]
    /\ reloads = 0
    /\ subscribers = <<>>

Init == Constructed(DocAny)

\* ------------------------------------------------------------------ load_config
\* load_config(): an absent file returns at once; a file that does not parse
\* emits config_error; otherwise self.servers is replaced and the status of
\* every server of the document is replaced by a fresh "stopped" one.
FreshStatuses(doc) ==
    [s \in DOMAIN server_status \cup DOMAIN doc |->
        IF s \in DOMAIN doc THEN MCPServerStatus(s) ELSE server_status[s]]

\* Mutant of LoadConfig: self.servers is emptied before the file is parsed.
LoadConfigClearsFirst ==
    /\ reloads < MaxReloads
    /\ reloads' = reloads + 1
    /\ IF ~config_file.exists
       THEN UNCHANGED <<servers, server_status, event_queue>>
       ELSE IF ~config_file.json
       THEN /\ event_queue' = SendEvent(event_queue, Event("config_error", "-", 0, <<>>))
            /\ servers' = << >>
            /\ UNCHANGED server_status
       ELSE /\ servers' = config_file.mcpServers
            /\ server_status' = FreshStatuses(config_file.mcpServers)
            /\ event_queue' = SendEvent(event_queue, Event("config_loaded", "-", 0, <<>>))
    /\ UNCHANGED <<subscribers, config_file, processes, tools, resources, prompts, request_counters,
                   pending_requests, children, tasks, assigned>>

LoadConfig ==
    /\ reloads < MaxReloads
    /\ reloads' = reloads + 1
    /\ IF ~config_file.exists
       THEN UNCHANGED <<servers, server_status, event_queue>>
       ELSE IF ~config_file.json
       THEN /\ event_queue' = SendEvent(event_queue, Event("config_error", "-", 0, <<>>))
            /\ UNCHANGED <<servers, server_status>>
       ELSE /\ servers' = config_file.mcpServers
            /\ server_status' = FreshStatuses(config_file.mcpServers)
            /\ event_queue' = SendEvent(event_queue, Event("config_loaded", "-", 0, <<>>))
    /\ UNCHANGED <<subscribers, config_file, processes, tools, resources, prompts, request_counters,
                   pending_requests, children, tasks, assigned>>

\* The files config_path can hold.
ConfigFiles == {ConfigFile(DocAB), ConfigFile(DocBC), InvalidFile, AbsentFile}

\* Someone rewrites, corrupts or deletes the file at config_path.
WriteConfig(file) ==
    /\ file # config_file
    /\ config_file' = file
    /\ UNCHANGED <<subscribers, servers, server_status, processes, tools, resources, prompts,
                   request_counters, pending_requests, event_queue, children, tasks,
                   assigned, reloads>>

\* ------------------------------------------------------------------ stop_server
\* Mutant of StoppedStatus: pid and started_at are left.
StoppedStatusKeepsPid(status) == [status EXCEPT !.status = "stopped"]

\* The status stop_server leaves: the counts and last_error are not touched.
StoppedStatus(status) ==
    [status EXCEPT !.status = "stopped", !.pid = None, !.started_at = None]

\* Mutant of StopSession: the entry of self.processes is left in place.
StopSessionKeepsEntry(s, ch) ==
    /\ children' = TerminateWaitKill(ch, processes[s])
    /\ processes' = processes
    /\ server_status' = [server_status EXCEPT ![s] = StoppedStatus(@)]
    /\ tools' = [tools EXCEPT ![s] = <<>>]
    /\ resources' = [resources EXCEPT ![s] = <<>>]
    /\ prompts' = [prompts EXCEPT ![s] = <<>>]
    /\ event_queue' = SendEvent(event_queue, Event("server_stopped", s, 0, <<>>))

\* The body of stop_server for a server in self.processes.  It has no await:
\* process.wait blocks the event loop.  `ch` is the children as the caller
\* leaves them.  self.pending_requests is not touched.
StopSession(s, ch) ==
    /\ children' = TerminateWaitKill(ch, processes[s])
    /\ processes' = Without(processes, s)
    /\ server_status' = [server_status EXCEPT ![s] = StoppedStatus(@)]
    /\ tools' = [tools EXCEPT ![s] = <<>>]
    /\ resources' = [resources EXCEPT ![s] = <<>>]
    /\ prompts' = [prompts EXCEPT ![s] = <<>>]
    /\ event_queue' = SendEvent(event_queue, Event("server_stopped", s, 0, <<>>))

\* stop_server(s) called by a caller: True after the body, False and nothing
\* else when s has no session.
StopServer(s) ==
    LET task == Task("stop_server", s) IN
    /\ IF s \in DOMAIN processes
       THEN /\ StopSession(s, children)
            /\ tasks' = Append(tasks, Returned(task, "true"))
       ELSE /\ tasks' = Append(tasks, Returned(task, "false"))
            /\ UNCHANGED <<children, processes, server_status, tools, resources, prompts,
                           event_queue>>
    /\ UNCHANGED <<subscribers, config_file, servers, request_counters, pending_requests, assigned,
                   reloads>>


\* ------------------------------------------------------------------ _send_message
\* The two checks at the top of _send_message: the server has a session and
\* its process has not exited.
CanSend(s) == s \in DOMAIN processes /\ Alive(children, processes[s])

\* Mutant of NextId: the id is taken from the size of the pending table.
NextIdFromTable(s) == Cardinality(DOMAIN pending_requests[s]) + 1

\* Mutant of NextId: the counter starts again with each session.
NextIdPerSession(s) == IF s \in DOMAIN processes THEN request_counters[s] + 1 ELSE 1

\* self.request_counters[server_id] += 1; message["id"] = the counter
NextId(s) == request_counters[s] + 1

\* The task from the start of a _send_message call that passed the checks to
\* its first await: the id is assigned and the Future is created.
Sending(task, method, id, child) ==
    [task EXCEPT !.stage = method, !.pc = "write", !.fut = "pending", !.id = id,
                 !.child = child, !.response = NoResponse]

\* _send_message(s, {"method": method}) called by task t, whose record is `task`,
\* up to its first await; `pend` is the pending table as the caller leaves it.
BeginSend(t, task, s, method, pend) ==
    /\ request_counters' = [request_counters EXCEPT ![s] = NextId(s)]
    /\ pending_requests' = [pend EXCEPT ![s] = With(@, NextId(s), t)]
    /\ assigned' = [assigned EXCEPT ![s] = Append(@, NextId(s))]
    /\ tasks' = [tasks EXCEPT ![t] = Sending(task, method, NextId(s), processes[s])]

\* Mutant of Forget: the except clauses empty the server's table.
ForgetAll(pend, s, id) == [pend EXCEPT ![s] = << >>]

\* Mutant of Forget: the except clauses leave the entry in the table.
ForgetNothing(pend, s, id) == pend

\* The except clauses of _send_message: the entry is deleted if it is still there.
Forget(pend, s, id) ==
    IF id \in DOMAIN pend[s] THEN [pend EXCEPT ![s] = Without(@, id)] ELSE pend

\* ------------------------------------------------------------------ _initialize_server
\* Mutant of InitErrorStatus: the error is recorded and the state is left.
InitErrorStatusKeepsState(status, error) == [status EXCEPT !.last_error = error]

\* The status the except clause of _initialize_server leaves.
InitErrorStatus(status, error) ==
    [status EXCEPT !.status = "error", !.last_error = error]

\* Mutant of HandshakeFailed: start_server returns False after the except
\* clause of _initialize_server.
HandshakeFailedReturnsFalse(t, error, pend) ==
    LET s == tasks[t].sid IN
    /\ server_status' = [server_status EXCEPT ![s] = InitErrorStatus(@, error)]
    /\ event_queue' = SendEvent(event_queue, Event("server_init_error", s, t, <<>>))
    /\ IF s \in DOMAIN processes
       THEN /\ children' = Terminate(children, processes[s])
            /\ processes' = Without(processes, s)
       ELSE UNCHANGED <<children, processes>>
    /\ tasks' = [tasks EXCEPT ![t] = Returned(@, "false")]
    /\ pending_requests' = pend
    /\ UNCHANGED <<tools, resources, prompts, request_counters, assigned>>

\* The except clause of _initialize_server, after which start_server returns
\* True: the status, the event, and terminate() without a wait on whatever
\* process self.processes holds for the id.
HandshakeFailed(t, error, pend) ==
    LET s == tasks[t].sid IN
    /\ server_status' = [server_status EXCEPT ![s] = InitErrorStatus(@, error)]
    /\ event_queue' = SendEvent(event_queue, Event("server_init_error", s, t, <<>>))
    /\ IF s \in DOMAIN processes
       THEN /\ children' = Terminate(children, processes[s])
            /\ processes' = Without(processes, s)
       ELSE UNCHANGED <<children, processes>>
    /\ tasks' = [tasks EXCEPT ![t] = Returned(@, "true")]
    /\ pending_requests' = pend
    /\ UNCHANGED <<tools, resources, prompts, request_counters, assigned>>

\* ------------------------------------------------------------------ _load_server_capabilities
\* The list comprehension of _load_tools, _load_resources and _load_prompts.
Catalog(items, s) == [i \in 1..Len(items) |-> [name |-> items[i], server_id |-> s]]

\* Mutant of CountedStatus: the counts are left as start_server reset them.
CountsLeft(status, nt, nr, np) == status

\* The counts _load_server_capabilities writes after the three loaders.
CountedStatus(status, nt, nr, np) ==
    [status EXCEPT !.tools_count = nt, !.resources_count = nr, !.prompts_count = np]

\* The method start_server's chain sends after `method`.
NextMethod(method) ==
    CASE method = "initialize"                -> "notifications/initialized"
      [] method = "notifications/initialized" -> "tools/list"
      [] method = "tools/list"                -> "resources/list"
      [] method = "resources/list"            -> "prompts/list"
      [] OTHER                                -> "none"

\* start_server's coroutine from the end of one _send_message call (a reply,
\* "Timeout" or "Transport") to its next await or its return.
ContinueStart(t, outcome, pend) ==
    LET task == tasks[t]
        s == task.sid
        method == task.stage
        resp == task.response
        good == outcome = "reply" /\ ~resp.error
        \* what the try block of _initialize_server raises, if anything
        error == IF outcome # "reply" THEN outcome
                 ELSE IF method = "initialize" /\ resp.error THEN "RpcError"
                 ELSE IF method = "initialize" /\ ~CanSend(s) THEN "NotRunning"
                 ELSE "None"
        tools1 == IF method = "tools/list" /\ good
                  THEN [tools EXCEPT ![s] = Catalog(resp.items, s)] ELSE tools
        resources1 == IF method = "resources/list" /\ good
                      THEN [resources EXCEPT ![s] = Catalog(resp.items, s)] ELSE resources
        prompts1 == IF method = "prompts/list" /\ good
                    THEN [prompts EXCEPT ![s] = Catalog(resp.items, s)] ELSE prompts
        queue1 == IF method = "notifications/initialized"
                  THEN SendEvent(event_queue, Event("server_initialized", s, t, <<>>))
                  ELSE event_queue
        nt == Len(tools1[s])
        nr == Len(resources1[s])
        np == Len(prompts1[s])
    IN
    IF method \in {"initialize", "notifications/initialized"} /\ error # "None"
    THEN HandshakeFailed(t, error, pend)
    ELSE
        /\ tools' = tools1
        /\ resources' = resources1
        /\ prompts' = prompts1
        /\ UNCHANGED <<children, processes>>
        /\ IF NextMethod(method) # "none" /\ CanSend(s)
           THEN /\ BeginSend(t, task, s, NextMethod(method), pend)
                /\ event_queue' = queue1
                /\ UNCHANGED server_status
           ELSE \* the loaders left each raise in _send_message and log it
                /\ server_status' = [server_status EXCEPT ![s] = CountedStatus(@, nt, nr, np)]
                /\ event_queue' = SendEvent(queue1,
                        Event("server_capabilities_loaded", s, t, <<nt, nr, np>>))
                /\ tasks' = [tasks EXCEPT ![t] = Returned(task, "true")]
                /\ pending_requests' = pend
                /\ UNCHANGED <<request_counters, assigned>>


\* ------------------------------------------------------------------ dispatch
\* The method call_tool, read_resource and get_prompt send.
DispatchMethod(op) ==
    CASE op = "call_tool"     -> "tools/call"
      [] op = "read_resource" -> "resources/read"
      [] op = "get_prompt"    -> "prompts/get"

\* The event each operation emits on success and in its except clause.
SuccessEvent(op) ==
    CASE op = "call_tool"     -> "tool_executed"
      [] op = "read_resource" -> "resource_read"
      [] op = "get_prompt"    -> "prompt_retrieved"

\* Mutant of ErrorEvent: every except clause emits call_tool's event.
ErrorEventOfTool(op) == "tool_error"

ErrorEvent(op) ==
    CASE op = "call_tool"     -> "tool_error"
      [] op = "read_resource" -> "resource_error"
      [] op = "get_prompt"    -> "prompt_error"

\* Whether the success path emits its event: read_resource does only when
\* result.contents is not empty.
EmitsOnSuccess(op, resp) == op # "read_resource" \/ resp.items # <<>>

\* call_tool, read_resource or get_prompt from the end of its _send_message
\* call to its return or raise.
ContinueDispatch(t, outcome, pend) ==
    LET task == tasks[t]
        s == task.sid
        resp == task.response
        error == IF outcome # "reply" THEN outcome
                 ELSE IF resp.error THEN "RpcError" ELSE "None"
    IN
    /\ IF error # "None"
       THEN /\ event_queue' = SendEvent(event_queue, Event(ErrorEvent(task.op), s, t, <<>>))
            /\ tasks' = [tasks EXCEPT ![t] = Raised(@, error)]
       ELSE /\ event_queue' = IF EmitsOnSuccess(task.op, resp)
                              THEN SendEvent(event_queue, Event(SuccessEvent(task.op), s, t, <<>>))
                              ELSE event_queue
            /\ tasks' = [tasks EXCEPT ![t] = Returned(@, "result")]
    /\ pending_requests' = pend
    /\ UNCHANGED <<server_status, processes, tools, resources, prompts, request_counters,
                   children, assigned>>

\* A caller's coroutine from the end of a _send_message call on.
Continue(t, outcome, pend) ==
    IF tasks[t].op = "start_server"
    THEN ContinueStart(t, outcome, pend)
    ELSE ContinueDispatch(t, outcome, pend)

\* A new call of call_tool, read_resource or get_prompt, up to its first await:
\* _send_message raises at once when the server has no live process.
Dispatch(op, s) ==
    LET t == Len(tasks) + 1
        task == Task(op, s)
    IN
    /\ IF CanSend(s)
       THEN /\ request_counters' = [request_counters EXCEPT ![s] = NextId(s)]
            /\ pending_requests' = [pending_requests EXCEPT ![s] = With(@, NextId(s), t)]
            /\ assigned' = [assigned EXCEPT ![s] = Append(@, NextId(s))]
            /\ tasks' = Append(tasks, Sending(task, DispatchMethod(op), NextId(s), processes[s]))
            /\ UNCHANGED event_queue
       ELSE /\ event_queue' = SendEvent(event_queue, Event(ErrorEvent(op), s, t, <<>>))
            /\ tasks' = Append(tasks, Raised(task, "NotRunning"))
            /\ UNCHANGED <<request_counters, pending_requests, assigned>>
    /\ UNCHANGED <<subscribers, config_file, servers, server_status, processes, tools, resources,
                   prompts, children, reloads>>

\* ------------------------------------------------------------------ start_server
\* The status after the reset at the top of start_server.
StartingStatus(status) ==
    [status EXCEPT !.status = "starting", !.tools_count = 0, !.resources_count = 0,
                   !.prompts_count = 0]

\* The status once Popen returned.
RunningStatus(status, pid) ==
    [status EXCEPT !.status = "running", !.pid = pid, !.started_at = pid]

\* Mutant of StartErrorStatus: the error is recorded and the state is left.
StartErrorKeepsState(status, error) == [status EXCEPT !.last_error = error]

\* The status the except clause of start_server leaves.
StartErrorStatus(status, error) ==
    [status EXCEPT !.status = "error", !.last_error = error]

\* Mutant of AlreadyRunning: the session is seen only once the start_server
\* call that made it has returned, as if the entry were written after the
\* handshake.
SeenAfterHandshake(s) ==
    /\ s \in DOMAIN processes
    /\ \A t \in DOMAIN tasks :
            (tasks[t].op = "start_server" /\ tasks[t].sid = s) => tasks[t].pc = "done"

\* Mutant of AlreadyRunning: start_server does not look at self.processes.
NeverRunning(s) == FALSE

\* The check at the top of start_server: the id has a session.
AlreadyRunning(s) == s \in DOMAIN processes

\* Mutant of UnknownServer: the call returns False.
UnknownServerReturnsFalse(task) == Returned(task, "false")

\* raise ValueError for an id that is not in self.servers.
UnknownServer(task) == Raised(task, "UnknownServer")

\* start_server(s), up to its first await.  An unknown id raises; a live id
\* returns True at once.  Otherwise the catalogs and counts are reset, the child is
\* spawned (Popen may raise), the monitor task is created, and
\* _initialize_server sends initialize.
StartServer(s, spawned) ==
    LET t == Len(tasks) + 1
        task == Task("start_server", s)
        pid == Len(children) + 1
        starting == SendEvent(event_queue, Event("server_starting", s, t, <<>>))
    IN
    /\ IF s \notin DOMAIN servers
       THEN /\ tasks' = Append(tasks, UnknownServer(task))
            /\ UNCHANGED <<server_status, processes, tools, resources, prompts,
                           request_counters, pending_requests, event_queue, children,
                           assigned>>
       ELSE IF AlreadyRunning(s)
       THEN /\ tasks' = Append(tasks, Returned(task, "true"))
            /\ UNCHANGED <<server_status, processes, tools, resources, prompts,
                           request_counters, pending_requests, event_queue, children,
                           assigned>>
       ELSE /\ tools' = [tools EXCEPT ![s] = <<>>]
            /\ resources' = [resources EXCEPT ![s] = <<>>]
            /\ prompts' = [prompts EXCEPT ![s] = <<>>]
            /\ IF spawned
               THEN /\ children' = Append(children, Popen(s, servers[s].command))
                    /\ processes' = With(processes, s, pid)
                    /\ server_status' = [server_status EXCEPT
                            ![s] = RunningStatus(StartingStatus(@), pid)]
                    /\ event_queue' = SendEvent(starting, Event("server_started", s, t, <<pid>>))
                    /\ request_counters' = [request_counters EXCEPT ![s] = NextId(s)]
                    /\ pending_requests' = [pending_requests EXCEPT ![s] = With(@, NextId(s), t)]
                    /\ assigned' = [assigned EXCEPT ![s] = Append(@, NextId(s))]
                    /\ tasks' = Append(tasks, Sending(task, "initialize", NextId(s), pid))
               ELSE /\ server_status' = [server_status EXCEPT
                            ![s] = StartErrorStatus(StartingStatus(@), "SpawnFailed")]
                    /\ event_queue' = SendEvent(starting, Event("server_error", s, t, <<>>))
                    /\ tasks' = Append(tasks, Returned(task, "false"))
                    /\ UNCHANGED <<processes, request_counters, pending_requests, children,
                                   assigned>>
    /\ UNCHANGED <<subscribers, config_file, servers, reloads>>


\* ------------------------------------------------------------------ stream_events
\* A GET /events request arrives: its event_generator starts with nothing
\* received.  since is history: the number of events put before it connected.
Subscribe ==
    /\ Len(subscribers) < MaxSubscribers
    /\ subscribers' = Append(subscribers, [received |-> <<>>, since |-> Len(event_queue)])
    /\ UNCHANGED <<config_file, servers, server_status, processes, tools, resources, prompts,
                   request_counters, pending_requests, event_queue, children, tasks,
                   assigned, reloads>>

\* manager.event_queue.get() returns in the generator of subscriber i: the
\* oldest queued event leaves the queue and is sent to that subscriber alone.
GetEvent(i) ==
    /\ Queued(event_queue) > 0
    /\ subscribers' = [subscribers EXCEPT
            ![i].received = Append(@, event_queue[Taken(subscribers) + 1])]
    /\ UNCHANGED <<config_file, servers, server_status, processes, tools, resources, prompts,
                   request_counters, pending_requests, event_queue, children, tasks,
                   assigned, reloads>>

\* ------------------------------------------------------------------ shutdown
\* Mutant of ProcessKeys: the loop ends after its first turn.
FirstKeyOnly(procs) ==
    IF DOMAIN procs = {} THEN <<>>
    ELSE <<CHOOSE s \in DOMAIN procs : \A r \in DOMAIN procs : procs[s] <= procs[r]>>

\* list(processes.keys()): the ids with a session, in the order the sessions
\* were inserted, which is the order of their pids.
ProcessKeys(procs) ==
    CHOOSE keys \in [1..Cardinality(DOMAIN procs) -> DOMAIN procs] :
        \A i, j \in DOMAIN keys : i < j => procs[keys[i]] < procs[keys[j]]

\* The shutdown part of lifespan: stop_server is awaited for every id that has
\* a session when the loop begins.  stop_server has no await, so the loop runs
\* without a suspension; each turn does what StopSession does for its id.
Shutdown ==
    LET keys == ProcessKeys(processes)
        live == {keys[i] : i \in DOMAIN keys}
        pids == {processes[s] : s \in live}
    IN
    /\ children' = [c \in DOMAIN children |->
                        IF c \in pids THEN TerminateWaitKill(children, c)[c] ELSE children[c]]
    /\ processes' = [s \in DOMAIN processes \ live |-> processes[s]]
    /\ server_status' = [s \in DOMAIN server_status |->
                            IF s \in live THEN StoppedStatus(server_status[s])
                            ELSE server_status[s]]
    /\ tools' = [s \in DOMAIN tools |-> IF s \in live THEN <<>> ELSE tools[s]]
    /\ resources' = [s \in DOMAIN resources |-> IF s \in live THEN <<>> ELSE resources[s]]
    /\ prompts' = [s \in DOMAIN prompts |-> IF s \in live THEN <<>> ELSE prompts[s]]
    /\ event_queue' = event_queue
                        \o [i \in DOMAIN keys |-> Event("server_stopped", keys[i], 0, <<>>)]
    /\ tasks' = Append(tasks, Returned(Task("shutdown", "-"), "none"))
    /\ UNCHANGED <<subscribers, config_file, servers, request_counters, pending_requests,
                   assigned, reloads>>

\* ------------------------------------------------------------------ the awaits of _send_message
\* run_in_executor(process.stdin.write): the request reaches the child, or the
\* write raises because the child is gone and the except clause runs.
WriteStep(t) ==
    LET task == tasks[t]
        c == task.child
    IN
    /\ task.pc = "write"
    /\ IF Alive(children, c)
       THEN /\ children' = [children EXCEPT
                    ![c].inbox = @ \cup {[id |-> task.id, method |-> task.stage]}]
            /\ tasks' = [tasks EXCEPT ![t].pc = "flush"]
            /\ UNCHANGED <<server_status, processes, tools, resources, prompts,
                           request_counters, pending_requests, event_queue, assigned>>
       ELSE Continue(t, "Transport", Forget(pending_requests, task.sid, task.id))
    /\ UNCHANGED <<subscribers, config_file, servers, reloads>>

\* run_in_executor(process.stdin.flush) returns; the task goes on to wait_for.
FlushStep(t) ==
    /\ tasks[t].pc = "flush"
    /\ tasks' = [tasks EXCEPT ![t].pc = "wait"]
    /\ UNCHANGED <<subscribers, config_file, servers, server_status, processes, tools, resources,
                   prompts, request_counters, pending_requests, event_queue, children,
                   assigned, reloads>>

\* wait_for's 10 s pass with the Future not done: the Future is cancelled and
\* the task is scheduled with TimeoutError.
TimerFires(t) ==
    /\ tasks[t].pc = "wait"
    /\ tasks[t].fut = "pending"
    /\ tasks' = [tasks EXCEPT ![t].fut = "cancelled"]
    /\ UNCHANGED <<subscribers, config_file, servers, server_status, processes, tools, resources,
                   prompts, request_counters, pending_requests, event_queue, children,
                   assigned, reloads>>

\* The task resumes in `except asyncio.TimeoutError`.
ResumeTimeout(t) ==
    /\ tasks[t].pc = "wait"
    /\ tasks[t].fut = "cancelled"
    /\ Continue(t, "Timeout", Forget(pending_requests, tasks[t].sid, tasks[t].id))
    /\ UNCHANGED <<subscribers, config_file, servers, reloads>>

\* The task resumes with the reply its Future was given.
ResumeReply(t) ==
    /\ tasks[t].pc = "wait"
    /\ tasks[t].fut = "result"
    /\ Continue(t, "reply", pending_requests)
    /\ UNCHANGED <<subscribers, config_file, servers, reloads>>

\* ------------------------------------------------------------------ the child and its monitor
\* The child answers a request it has read.
ChildReply(c, request, answer) ==
    /\ Alive(children, c)
    /\ request \in children[c].inbox
    /\ answer \in Answers(children[c].command, request.method)
    /\ children' = [children EXCEPT
            ![c].inbox = @ \ {request},
            ![c].pipe = Append(@, Reply(request.id, answer.error, answer.items))]
    /\ UNCHANGED <<subscribers, config_file, servers, server_status, processes, tools, resources,
                   prompts, request_counters, pending_requests, event_queue, tasks,
                   assigned, reloads>>

\* The child exits: on its own (only the child free to do as it likes does)
\* or on SIGTERM (every child but the one that ignores it).
ChildExit(c) ==
    /\ Alive(children, c)
    /\ \/ children[c].command = AnyCommand
       \/ children[c].signalled /\ children[c].command # DeafCommand
    /\ children' = Exited(children, c, IF children[c].signalled THEN "signal" ELSE "exit")
    /\ UNCHANGED <<subscribers, config_file, servers, server_status, processes, tools, resources,
                   prompts, request_counters, pending_requests, event_queue, tasks,
                   assigned, reloads>>

\* Whether _handle_server_message completes a Future with this line.
Completes(s, line) ==
    /\ line.id \in DOMAIN pending_requests[s]
    /\ tasks[pending_requests[s][line.id]].fut = "pending"

\* _handle_server_message(s, line) for a JSON line with an id: a pending entry
\* with that id is popped and its Future, unless done, is given the line.
HandleServerMessage(s, line) ==
    /\ pending_requests' = IF line.id \in DOMAIN pending_requests[s]
                           THEN [pending_requests EXCEPT ![s] = Without(@, line.id)]
                           ELSE pending_requests
    /\ tasks' = IF Completes(s, line)
                THEN [tasks EXCEPT ![pending_requests[s][line.id]].fut = "result",
                                   ![pending_requests[s][line.id]].response = line]
                ELSE tasks

\* 'DOSKEY' in clean_line: the text occurs somewhere in the line.
MentionsDoskey(line) == \E i \in DOMAIN line.items : line.items[i] = "DOSKEY"

\* read_stdout of the monitor of child c reads one line and, unless the line
\* mentions DOSKEY, handles it under the server id the monitor was created for.
MonitorRead(c) ==
    /\ children[c].monitor = "active"
    /\ children[c].pipe # <<>>
    /\ children' = [children EXCEPT ![c].pipe = Tail(@)]
    /\ IF MentionsDoskey(Head(children[c].pipe))
       THEN UNCHANGED <<pending_requests, tasks>>
       ELSE HandleServerMessage(children[c].sid, Head(children[c].pipe))
    /\ UNCHANGED <<subscribers, config_file, servers, server_status, processes, tools, resources,
                   prompts, request_counters, event_queue, assigned, reloads>>

\* The readers of child c saw poll() is not None and returned; the finally
\* clause of _monitor_server_output stops whatever session the id has.
MonitorExit(c) ==
    LET s == children[c].sid
        ch == [children EXCEPT ![c].monitor = "done", ![c].pipe = <<>>]
    IN
    /\ children[c].monitor = "active"
    /\ ~Alive(children, c)
    /\ IF s \in DOMAIN processes
       THEN StopSession(s, ch)
       ELSE /\ children' = ch
            /\ UNCHANGED <<processes, server_status, tools, resources, prompts, event_queue>>
    /\ UNCHANGED <<subscribers, config_file, servers, request_counters, pending_requests, tasks,
                   assigned, reloads>>

\* ------------------------------------------------------------------ specification
DispatchOps == {"call_tool", "read_resource", "get_prompt"}

\* The calls the callers make in one behaviour are bounded.
MayStart == Calls({"start_server"}) < MaxStarts

MayStop == Calls({"stop_server"}) < MaxStops

MayCall == Calls(DispatchOps) < MaxCalls

\* The steps of the coroutines in flight, of the children and of the monitors.
Run ==
    \/ \E t \in DOMAIN tasks : WriteStep(t)
    \/ \E t \in DOMAIN tasks : FlushStep(t)
    \/ \E t \in DOMAIN tasks : ResumeTimeout(t)
    \/ \E t \in DOMAIN tasks : ResumeReply(t)
    \/ \E c \in DOMAIN children : \E request \in children[c].inbox :
            \E answer \in Answers(children[c].command, request.method) :
                ChildReply(c, request, answer)
    \/ \E c \in DOMAIN children : ChildExit(c)
    \/ \E c \in DOMAIN children : MonitorRead(c)
    \/ \E c \in DOMAIN children : MonitorExit(c)

\* The lifecycle of one server whose child may do anything, with call_tool as
\* the dispatch call.
Next ==
    \/ \E s \in ServerIds, spawned \in BOOLEAN : MayStart /\ StartServer(s, spawned)
    \/ \E s \in ServerIds : MayStop /\ StopServer(s)
    \/ \E s \in ServerIds : MayCall /\ Dispatch("call_tool", s)
    \/ \E t \in DOMAIN tasks : TimerFires(t)
    \/ Run

Spec == Init /\ [][Next]_vars

\* The same lifecycle with reloads of the configuration file in place of the
\* dispatch calls.
NextReload ==
    \/ LoadConfig
    \/ \E s \in ServerIds, spawned \in BOOLEAN : MayStart /\ StartServer(s, spawned)
    \/ \E s \in ServerIds : MayStop /\ StopServer(s)
    \/ \E t \in DOMAIN tasks : TimerFires(t)
    \/ Run

SpecReload == Init /\ [][NextReload]_vars

\* The handshake scenario: the configured server runs the stub, which answers
\* in time whatever it answers at all, so that a deadline passes only for a
\* request the child will never answer.  The server is started once and
\* callers dispatch to it.
Unanswered(t) ==
    /\ tasks[t].pc = "wait"
    /\ \/ ~Alive(children, tasks[t].child)
       \/ Answers(children[tasks[t].child].command, tasks[t].stage) = {}

InitHappy == Constructed(DocDemo)

NextHappy ==
    \/ \E s \in ServerIds : MayStart /\ StartServer(s, TRUE)
    \/ \E op \in DispatchOps, s \in ServerIds : MayCall /\ Dispatch(op, s)
    \/ \E t \in DOMAIN tasks : Unanswered(t) /\ TimerFires(t)
    \/ Run

SpecHappy == InitHappy /\ [][NextHappy]_vars

\* The lifecycle of the round-trip laws: a server is started, start_server is
\* called again while it has a session, and stop_server is called repeatedly;
\* no dispatch calls.
NextTwice ==
    \/ \E s \in ServerIds, spawned \in BOOLEAN : MayStart /\ StartServer(s, spawned)
    \/ \E s \in ServerIds :
            /\ Calls({"start_server"}) < MaxStartsTwice
            /\ s \in DOMAIN processes
            /\ StartServer(s, TRUE)
    \/ \E s \in ServerIds : Calls({"stop_server"}) < MaxStopsTwice /\ StopServer(s)
    \/ \E t \in DOMAIN tasks : TimerFires(t)
    \/ Run

SpecTwice == Init /\ [][NextTwice]_vars

\* A server that callers start, and start again, but never stop: only the
\* monitor can stop it.  A deadline passes only for a request whose child is
\* gone.  The event loop runs every task that is ready, so a monitor whose
\* child has exited does get to its finally clause.
NextAuto ==
    \/ \E s \in ServerIds, spawned \in BOOLEAN :
            Calls({"start_server"}) < MaxStartsTwice /\ StartServer(s, spawned)
    \/ \E t \in DOMAIN tasks : Unanswered(t) /\ TimerFires(t)
    \/ Run

SpecAuto ==
    /\ Init
    /\ [][NextAuto]_vars
    /\ WF_vars(\E c \in DOMAIN children : MonitorExit(c))

\* One server whose child may do anything, started once, with call_tool,
\* read_resource and get_prompt as the dispatch calls.  A deadline passes only
\* for a request whose child is gone.
NextDispatch ==
    \/ \E s \in ServerIds : MayStart /\ StartServer(s, TRUE)
    \/ \E op \in DispatchOps, s \in ServerIds : MayCall /\ Dispatch(op, s)
    \/ \E t \in DOMAIN tasks : Unanswered(t) /\ TimerFires(t)
    \/ Run

SpecDispatch == Init /\ [][NextDispatch]_vars

\* The reload scenario: the manager is constructed with servers a and b; the
\* file is rewritten, corrupted or deleted and load_config is called again,
\* while callers start and stop the servers the manager knows (the control
\* route answers 404 for any other id).
InitReplace == Constructed(DocAB)

NextReplace ==
    \/ \E file \in ConfigFiles : reloads < MaxReloads /\ WriteConfig(file)
    \/ LoadConfig
    \/ \E s \in DOMAIN servers :
            Calls({"start_server"}) < MaxStartsTwice /\ StartServer(s, TRUE)
    \/ \E s \in DOMAIN servers : MayStop /\ StopServer(s)
    \/ \E t \in DOMAIN tasks : Unanswered(t) /\ TimerFires(t)
    \/ Run

SpecReplace == InitReplace /\ [][NextReplace]_vars

\* restart_server_task of the control route: stop_server, asyncio.sleep(1),
\* start_server.  The calls of one restart are the stop_server call and the
\* start_server call that follows it.
Restarting(s) ==
    \E t \in DOMAIN tasks :
        /\ tasks[t].op = "stop_server" /\ tasks[t].sid = s
        /\ \A u \in DOMAIN tasks : u > t => tasks[u].op # "start_server"

\* Mutant of Slept: start_server follows stop_server at once.
NoSleep(s) == TRUE

\* asyncio.sleep(1) has returned: within that second the monitor of a child
\* that is gone has read end-of-file and run its finally clause.
Slept(s) ==
    \A c \in DOMAIN children :
        (children[c].sid = s /\ ~Alive(children, c)) => children[c].monitor = "done"

\* The server a restart is asked for: it is running, with a session, and no
\* call is in flight.
Settled(s) ==
    /\ \A t \in DOMAIN tasks : tasks[t].pc = "done"
    /\ s \in DOMAIN processes
    /\ server_status[s].status = "running"

\* A server whose child answers every request is started and, once running,
\* restarted.  The child answers in time and exits only when stop_server ends
\* it, so no deadline passes and no child exits on its own.
InitRestart == Constructed(DocGood)

NextRestart ==
    \/ \E s \in DOMAIN servers :
            MayStart /\ Calls({"stop_server"}) = 0 /\ StartServer(s, TRUE)
    \/ \E s \in DOMAIN servers : MayStop /\ Settled(s) /\ StopServer(s)
    \/ \E s \in DOMAIN servers : Restarting(s) /\ Slept(s) /\ StartServer(s, TRUE)
    \/ \E t \in DOMAIN tasks : WriteStep(t)
    \/ \E t \in DOMAIN tasks : FlushStep(t)
    \/ \E t \in DOMAIN tasks : ResumeReply(t)
    \/ \E c \in DOMAIN children : \E request \in children[c].inbox :
            \E answer \in Answers(children[c].command, request.method) :
                ChildReply(c, request, answer)
    \/ \E c \in DOMAIN children : MonitorRead(c)
    \/ \E c \in DOMAIN children : MonitorExit(c)

SpecRestart == InitRestart /\ [][NextRestart]_vars

\* ------------------------------------------------------------------ auto_start_servers
\* manager.servers.items(): the ids in the order of the document.
IdOrder == <<"a", "b", "c", "demo">>

\* The ids auto_start_servers has called start_server for.
Attempted == {tasks[t].sid : t \in {u \in DOMAIN tasks : tasks[u].op = "start_server"}}

\* The ids the loop of auto_start_servers has still to visit.
ToAttempt ==
    {i \in DOMAIN IdOrder :
        /\ IdOrder[i] \in DOMAIN servers
        /\ servers[IdOrder[i]].auto_start
        /\ IdOrder[i] \notin Attempted}

\* One turn of the loop of auto_start_servers: the start_server call awaited
\* before has returned, and start_server is called for the next server whose
\* descriptor has auto_start set.
AutoStartNext(spawned) ==
    /\ \A t \in DOMAIN tasks : tasks[t].pc = "done"
    /\ ToAttempt # {}
    /\ StartServer(IdOrder[CHOOSE i \in ToAttempt : \A j \in ToAttempt : i <= j], spawned)

\* started_servers: the id of every start_server call that came back without
\* raising, whatever it returned.
StartedServers ==
    LET came_back == SelectSeq(tasks, LAMBDA task :
                        task.op = "start_server" /\ task.pc = "done" /\ task.ret # "raised")
    IN [i \in 1..Len(came_back) |-> came_back[i].sid]

\* The auto-start route is called once on a manager with two servers to start
\* automatically; a deadline passes only for a request the child will never
\* answer.
InitAutoStart == Constructed(DocAuto)

NextAutoStart ==
    \/ \E spawned \in BOOLEAN : AutoStartNext(spawned)
    \/ \E t \in DOMAIN tasks : Unanswered(t) /\ TimerFires(t)
    \/ Run

SpecAutoStart == InitAutoStart /\ [][NextAutoStart]_vars

\* The servers a and b are started, with start_server also called for an id
\* the manager does not know, and the application shuts down once.
NextFleet ==
    \/ \E s \in FleetIds :
            /\ Calls({"start_server"}) < MaxStartsTwice
            /\ Calls({"shutdown"}) = 0
            /\ StartServer(s, TRUE)
    \/ Calls({"shutdown"}) = 0 /\ Shutdown
    \/ \E t \in DOMAIN tasks : Unanswered(t) /\ TimerFires(t)
    \/ Run

SpecFleet == InitReplace /\ [][NextFleet]_vars

\* The handshake scenario's server is started while /events requests are
\* served.
NextEvents ==
    \/ \E s \in ServerIds : MayStart /\ StartServer(s, TRUE)
    \/ Subscribe
    \/ \E i \in DOMAIN subscribers : GetEvent(i)
    \/ \E t \in DOMAIN tasks : Unanswered(t) /\ TimerFires(t)
    \/ Run

SpecEvents == InitHappy /\ [][NextEvents]_vars

\* A server whose child is the stub is started, stopped and started again by
\* callers that do not wait for one another, and the configuration is
\* reloaded meanwhile.
NextRace ==
    \/ \E s \in ServerIds :
            Calls({"start_server"}) < MaxStartsTwice /\ StartServer(s, TRUE)
    \/ \E s \in ServerIds : MayStop /\ StopServer(s)
    \/ LoadConfig
    \/ \E t \in DOMAIN tasks : Unanswered(t) /\ TimerFires(t)
    \/ Run

SpecRace == InitHappy /\ [][NextRace]_vars

\* The write or the flush of a request whose child is gone: the executor's
\* call comes back at once.
WriteToDeadChild ==
    \E t \in DOMAIN tasks :
        /\ tasks[t].pc \in {"write", "flush"}
        /\ ~Alive(children, tasks[t].child)
        /\ WriteStep(t) \/ FlushStep(t)

\* The flush of a request the child has already read: nothing is left in the
\* pipe for it to wait on.
FlushOfReadRequest ==
    \E t \in DOMAIN tasks :
        /\ tasks[t].pc = "flush"
        /\ \A request \in children[tasks[t].child].inbox : request.id # tasks[t].id
        /\ FlushStep(t)

\* One server whose child answers every request for as long as it reads
\* its stdin, started once: the five _send_message calls of the handshake and
\* of the catalog queries; any deadline may pass.
NextStall ==
    \/ \E s \in ServerIds : MayStart /\ StartServer(s, TRUE)
    \/ \E t \in DOMAIN tasks : TimerFires(t)
    \/ Run

\* What the event loop and the clock guarantee: a deadline that is running
\* passes, a task that is ready resumes, a monitor reads what there is to read
\* and sees the end of its child's output, and a write to a child that is gone
\* comes back, and so does the flush of what the child has read.  The write
\* and the flush into the pipe of a live child that has not read the request
\* come back when the child drains the pipe, which nothing in the manager
\* guarantees: run_in_executor is awaited without a deadline; wait_for's
\* deadline covers the Future only.
SpecStall ==
    /\ InitRestart
    /\ [][NextStall]_vars
    /\ WF_vars(\E t \in DOMAIN tasks : TimerFires(t))
    /\ WF_vars(\E t \in DOMAIN tasks : ResumeTimeout(t))
    /\ WF_vars(\E t \in DOMAIN tasks : ResumeReply(t))
    /\ WF_vars(WriteToDeadChild)
    /\ WF_vars(FlushOfReadRequest)
    /\ WF_vars(\E c \in DOMAIN children : MonitorRead(c))
    /\ WF_vars(\E c \in DOMAIN children : MonitorExit(c))


\* ------------------------------------------------------------------ claims
\* No operation is in flight: every caller has returned and no monitor has a
\* child's exit left to handle.
Quiescent ==
    /\ \A t \in DOMAIN tasks : tasks[t].pc = "done"
    /\ \A c \in DOMAIN children : children[c].monitor = "active" => Alive(children, c)

\* C1: in every reachable state a server whose status is "running" has an
\* entry in processes, and a server whose status is "stopped" or "error" has none.
C1_RunningIffSession ==
    \A s \in DOMAIN server_status :
        /\ server_status[s].status = "running" => s \in DOMAIN processes
        /\ server_status[s].status \in {"stopped", "error"} => s \notin DOMAIN processes

\* C2: at every quiescent point the three counts of every status equal the
\* lengths of the server's catalogs.
C2_CountsMatchCatalogs ==
    Quiescent =>
        \A s \in DOMAIN server_status :
            /\ server_status[s].tools_count = Len(tools[s])
            /\ server_status[s].resources_count = Len(resources[s])
            /\ server_status[s].prompts_count = Len(prompts[s])

\* C3: in every reachable state a server whose status is not "running" has
\* empty tools, resources and prompts catalogs.
C3_CatalogsEmptyUnlessRunning ==
    \A s \in DOMAIN server_status :
        server_status[s].status # "running" =>
            tools[s] = <<>> /\ resources[s] = <<>> /\ prompts[s] = <<>>


\* The number of events of these types that task t emitted.
Emitted(queue, t, types) ==
    Cardinality({i \in 1..Len(queue) : queue[i].task = t /\ queue[i].type \in types})

\* C4: per server the request ids are strictly increasing in the order
\* _send_message assigned them, every pending entry belongs to the one request
\* in flight that carries its id, and no two requests in flight on a server
\* carry the same id.
C4_IdsIncreasingAndUnique ==
    /\ \A s \in ServerIds : \A i, j \in 1..Len(assigned[s]) :
            i < j => assigned[s][i] < assigned[s][j]
    /\ \A s \in ServerIds : \A id \in DOMAIN pending_requests[s] :
            /\ tasks[pending_requests[s][id]].id = id
            /\ tasks[pending_requests[s][id]].sid = s
    /\ \A t1, t2 \in DOMAIN tasks :
            (t1 # t2 /\ tasks[t1].pc # "done" /\ tasks[t2].pc # "done"
                /\ tasks[t1].sid = tasks[t2].sid) => tasks[t1].id # tasks[t2].id

\* Two callers wait at once on the same server, each with its own pending entry.
C4_Witness ==
    \E s \in ServerIds : \E id1, id2 \in DOMAIN pending_requests[s] :
        /\ id1 < id2
        /\ pending_requests[s][id1] # pending_requests[s][id2]
        /\ tasks[pending_requests[s][id1]].pc = "wait"
        /\ tasks[pending_requests[s][id2]].pc = "wait"

\* The step in which the monitor of child c handles one line.
ReadsLine(c) ==
    /\ children[c].pipe # <<>>
    /\ children' = [children EXCEPT ![c].pipe = Tail(@)]

\* C5: a request whose deadline passed is over when its caller resumes: the
\* entry is gone, the caller does not wait for that id again, and a dispatch
\* call raises Timeout.  A reply whose id is not pending is discarded: it
\* completes no request and changes no pending entry, status, catalog or event.
\* No pending entry outlives its request, and a Future only ever receives the
\* reply that carries its own id.
C5_TimeoutOnceLateReplyDiscarded ==
    /\ [](\A s \in ServerIds : \A id \in DOMAIN pending_requests[s] :
            /\ tasks[pending_requests[s][id]].pc # "done"
            /\ tasks[pending_requests[s][id]].id = id)
    /\ [](\A t \in DOMAIN tasks : tasks[t].fut = "result" => tasks[t].response.id = tasks[t].id)
    /\ [][\A t \in DOMAIN tasks :
            (tasks[t].pc = "wait" /\ tasks[t].fut = "cancelled" /\ tasks'[t] # tasks[t]) =>
                /\ tasks[t].id \notin DOMAIN pending_requests'[tasks[t].sid]
                /\ tasks'[t].id # tasks[t].id
                /\ tasks[t].op # "start_server" =>
                        tasks'[t].ret = "raised" /\ tasks'[t].error = "Timeout"]_vars
    /\ [][\A c \in DOMAIN children :
            (ReadsLine(c)
                /\ Head(children[c].pipe).id \notin DOMAIN pending_requests[children[c].sid]) =>
                UNCHANGED <<tasks, pending_requests, server_status, processes, tools,
                            resources, prompts, event_queue, request_counters>>]_vars

\* A call timed out and the child, still running, has since answered every
\* request it read, and the monitor has read every answer.
C5_Witness ==
    /\ \E t \in DOMAIN tasks : tasks[t].op = "call_tool" /\ tasks[t].error = "Timeout"
    /\ Len(children) = 1
    /\ Alive(children, 1)
    /\ children[1].inbox = {}
    /\ children[1].pipe = <<>>

\* C6: a request that was sent to a child which then exited on its own fails
\* because the child is gone: once the monitor has handled that exit, no caller
\* is still waiting for the child's reply.
C6_ExitFailsPending ==
    \A t \in DOMAIN tasks :
        (tasks[t].pc = "wait" /\ tasks[t].fut = "pending"
            /\ children[tasks[t].child].returncode = "exit") =>
            children[tasks[t].child].monitor = "active"

\* C7: a server without a session has an empty pending-request table.
C7_TeardownEmptiesPending ==
    \A s \in ServerIds : s \notin DOMAIN processes => pending_requests[s] = << >>

\* C8: the notifications/initialized message carries no id and has no pending
\* entry, and its sender does not wait for a reply.
C8_InitializedIsNotification ==
    \A t \in DOMAIN tasks :
        tasks[t].stage = "notifications/initialized" =>
            /\ tasks[t].id = 0
            /\ tasks[t].pc # "wait"
            /\ \A id \in DOMAIN pending_requests[tasks[t].sid] :
                    pending_requests[tasks[t].sid][id] # t

\* The event types occur in the queue in this order (others may lie between).
InOrder(queue, types) ==
    \E f \in [1..Len(types) -> 1..Len(queue)] :
        /\ \A i \in 1..Len(types) : queue[f[i]].type = types[i]
        /\ \A i \in 1..(Len(types) - 1) : f[i] < f[i + 1]

\* C9: with the stub child, once start_server has returned the server is
\* running with one tool, no resources and no prompts, and the events
\* config_loaded, server_starting, server_started, server_initialized,
\* server_capabilities_loaded were emitted in this order and server_init_error
\* was not.
C9_HappyHandshake ==
    \A t \in DOMAIN tasks :
        (tasks[t].op = "start_server" /\ tasks[t].pc = "done") =>
            /\ server_status[tasks[t].sid].status = "running"
            /\ server_status[tasks[t].sid].tools_count = 1
            /\ server_status[tasks[t].sid].resources_count = 0
            /\ server_status[tasks[t].sid].prompts_count = 0
            /\ Emitted(event_queue, t, {"server_init_error"}) = 0
            /\ InOrder(event_queue, <<"config_loaded", "server_starting", "server_started",
                                      "server_initialized", "server_capabilities_loaded">>)

\* The step in which the handshake of start_server call t fails: it leaves
\* the wait for initialize or notifications/initialized by timeout, its write
\* raises, initialize is answered with an error, or the server is no longer
\* running when the notification is to be sent.
HandshakeFails(t) ==
    /\ tasks[t].op = "start_server"
    /\ tasks[t].stage \in {"initialize", "notifications/initialized"}
    /\ tasks'[t] # tasks[t]
    /\ \/ tasks[t].pc = "wait" /\ tasks[t].fut = "cancelled"
       \/ tasks[t].pc = "write" /\ ~Alive(children, tasks[t].child)
       \/ /\ tasks[t].pc = "wait" /\ tasks[t].fut = "result"
          /\ tasks[t].stage = "initialize"
          /\ tasks[t].response.error \/ ~CanSend(tasks[t].sid)

\* C10: the step in which a handshake fails ends start_server, and leaves the
\* status "error" with last_error set, no session for the id, exactly one
\* server_init_error of that call, and no server_initialized or
\* server_capabilities_loaded of that call.
C10_HandshakeFailure ==
    [][\A t \in DOMAIN tasks :
        HandshakeFails(t) =>
            /\ tasks'[t].pc = "done"
            /\ server_status'[tasks[t].sid].status = "error"
            /\ server_status'[tasks[t].sid].last_error # "None"
            /\ tasks[t].sid \notin DOMAIN processes'
            /\ Emitted(event_queue', t, {"server_init_error"}) = 1
            /\ Emitted(event_queue', t,
                       {"server_initialized", "server_capabilities_loaded"}) = 0]_vars

\* A start_server call has returned after its handshake failed.
C10_Witness ==
    \E t \in DOMAIN tasks :
        /\ tasks[t].op = "start_server"
        /\ tasks[t].pc = "done"
        /\ Emitted(event_queue, t, {"server_init_error"}) = 1
        /\ server_status[tasks[t].sid].status = "error"

\* The child that start_server call t spawned, 0 if it spawned none: the pid
\* its server_started event carries.
SpawnedBy(queue, t) ==
    LET ix == {i \in 1..Len(queue) : queue[i].type = "server_started" /\ queue[i].task = t}
    IN IF ix = {} THEN 0 ELSE queue[CHOOSE i \in ix : TRUE].data[1]

\* C11: once the failure of a handshake has been handled (start_server has
\* returned after emitting server_init_error), the child that start spawned
\* is no longer alive.
C11_NoOrphanChild ==
    \A t \in DOMAIN tasks :
        (tasks[t].op = "start_server" /\ tasks[t].pc = "done"
            /\ Emitted(event_queue, t, {"server_init_error"}) = 1) =>
            ~Alive(children, SpawnedBy(event_queue, t))

\* The step in which start_server is called for a known id without a session
\* and the spawn fails: the call is made and no child is created.
SpawnFails(s) ==
    /\ Len(tasks') = Len(tasks) + 1
    /\ tasks'[Len(tasks')].op = "start_server"
    /\ tasks'[Len(tasks')].sid = s
    /\ s \in DOMAIN servers
    /\ s \notin DOMAIN processes
    /\ children' = children

\* C12: a start_server call whose spawn fails returns False and leaves the
\* status "error" with last_error set, exactly one server_error event of that
\* call, and no session for the id.
C12_SpawnFailure ==
    [][\A s \in ServerIds :
        SpawnFails(s) =>
            LET t == Len(tasks') IN
            /\ tasks'[t].pc = "done"
            /\ tasks'[t].ret = "false"
            /\ server_status'[s].status = "error"
            /\ server_status'[s].last_error # "None"
            /\ Emitted(event_queue', t, {"server_error"}) = 1
            /\ Emitted(event_queue', t, {"server_started"}) = 0
            /\ s \notin DOMAIN processes'
            /\ pending_requests' = pending_requests]_vars

\* A start_server call has returned False after its spawn failed.
C12_Witness ==
    \E t \in DOMAIN tasks :
        /\ tasks[t].op = "start_server"
        /\ tasks[t].ret = "false"
        /\ Emitted(event_queue, t, {"server_error"}) = 1
        /\ SpawnedBy(event_queue, t) = 0

\* The step in which start_server is called for an id that has a session.
StartsLive(s) ==
    /\ Len(tasks') = Len(tasks) + 1
    /\ tasks'[Len(tasks')].op = "start_server"
    /\ tasks'[Len(tasks')].sid = s
    /\ s \in DOMAIN processes

\* C13: start_server on an id that has a session returns True and changes
\* nothing: no child is spawned, no event is emitted, and the status, the
\* catalogs, the counts, the pending requests, the session and the callers in
\* flight are as before.
C13_StartLiveIsNoOp ==
    [][\A s \in ServerIds :
        StartsLive(s) =>
            /\ tasks'[Len(tasks')].pc = "done"
            /\ tasks'[Len(tasks')].ret = "true"
            /\ SubSeq(tasks', 1, Len(tasks)) = tasks
            /\ UNCHANGED <<children, event_queue, server_status, tools, resources, prompts,
                           pending_requests, processes, request_counters, servers>>]_vars

\* A start_server call returned True without announcing a start, while an
\* earlier call's session was there.
C13_Witness ==
    \E t \in DOMAIN tasks :
        /\ tasks[t].op = "start_server"
        /\ tasks[t].ret = "true"
        /\ Emitted(event_queue, t, {"server_starting"}) = 0
        /\ \E s \in DOMAIN processes : s = tasks[t].sid

\* The number of events of these types about server s.
EventsOf(queue, s, types) ==
    Cardinality({i \in 1..Len(queue) : queue[i].server_id = s /\ queue[i].type \in types})

\* The number of stop_server calls for s that returned True.
TrueStops(s) ==
    Cardinality({t \in DOMAIN tasks :
        tasks[t].op = "stop_server" /\ tasks[t].sid = s /\ tasks[t].ret = "true"})

\* The step in which a caller calls stop_server(s).
StopCalled(s) ==
    /\ Len(tasks') = Len(tasks) + 1
    /\ tasks'[Len(tasks')].op = "stop_server"
    /\ tasks'[Len(tasks')].sid = s

\* C14: stop_server on an id without a session returns False, emits nothing
\* and changes nothing; on an id with a session it returns True, removes the
\* session and emits one server_stopped.  Whoever stops a server, callers or
\* the monitor, every session is stopped at most once: there are never more
\* server_stopped events than sessions started, nor more stop_server calls
\* that returned True than server_stopped events.
C14_StopIsIdempotent ==
    /\ [](\A s \in ServerIds :
            /\ EventsOf(event_queue, s, {"server_stopped"})
                    <= EventsOf(event_queue, s, {"server_started"})
            /\ TrueStops(s) <= EventsOf(event_queue, s, {"server_stopped"}))
    /\ [][\A s \in ServerIds :
            StopCalled(s) =>
                /\ SubSeq(tasks', 1, Len(tasks)) = tasks
                /\ IF s \in DOMAIN processes
                   THEN /\ tasks'[Len(tasks')].ret = "true"
                        /\ s \notin DOMAIN processes'
                        /\ event_queue' = Append(event_queue,
                                                 Event("server_stopped", s, 0, <<>>))
                   ELSE /\ tasks'[Len(tasks')].ret = "false"
                        /\ UNCHANGED <<children, event_queue, server_status, tools,
                                       resources, prompts, pending_requests, processes,
                                       request_counters, servers>>]_vars

\* Two stop_server calls were made for a server that was started once: one
\* returned True, the other False, and one server_stopped was emitted.
C14_Witness ==
    \E t1, t2 \in DOMAIN tasks :
        /\ tasks[t1].op = "stop_server" /\ tasks[t1].ret = "true"
        /\ tasks[t2].op = "stop_server" /\ tasks[t2].ret = "false"
        /\ tasks[t1].sid = tasks[t2].sid
        /\ t1 < t2
        /\ EventsOf(event_queue, tasks[t1].sid, {"server_stopped"}) = 1

\* start_server has been called for s and every such call has returned.
StartCompleted(s) ==
    /\ \E t \in DOMAIN tasks : tasks[t].op = "start_server" /\ tasks[t].sid = s
    /\ \A t \in DOMAIN tasks :
            (tasks[t].op = "start_server" /\ tasks[t].sid = s) => tasks[t].pc = "done"

\* C15: when stop_server(s) is called after start_server(s) has completed and
\* returns True, it leaves the status "stopped" with pid and started_at
\* cleared, no session, and empty tools, resources and prompts catalogs.
C15_StopAfterStart ==
    [][\A s \in ServerIds :
        (StopCalled(s) /\ StartCompleted(s) /\ tasks'[Len(tasks')].ret = "true") =>
            /\ server_status'[s].status = "stopped"
            /\ server_status'[s].pid = None
            /\ server_status'[s].started_at = None
            /\ s \notin DOMAIN processes'
            /\ tools'[s] = <<>>
            /\ resources'[s] = <<>>
            /\ prompts'[s] = <<>>]_vars

\* A start_server call completed its handshake and loaded a tool, and a
\* stop_server call then returned True and emptied the catalog.
C15_Witness ==
    \E t1, t2 \in DOMAIN tasks :
        /\ tasks[t1].op = "start_server"
        /\ Emitted(event_queue, t1, {"server_capabilities_loaded"}) = 1
        /\ tasks[t2].op = "stop_server" /\ tasks[t2].ret = "true"
        /\ tasks[t1].sid = tasks[t2].sid
        /\ server_status[tasks[t1].sid].status = "stopped"
        /\ server_status[tasks[t1].sid].tools_count = 1
        /\ tools[tasks[t1].sid] = <<>>

\* s has a session whose handshake has completed and whose child has exited
\* on its own.
ExitedUnexpectedly(s) ==
    /\ s \in DOMAIN processes
    /\ children[processes[s]].returncode = "exit"
    /\ \E t \in DOMAIN tasks :
            /\ tasks[t].op = "start_server" /\ tasks[t].sid = s
            /\ SpawnedBy(event_queue, t) = processes[s]
            /\ Emitted(event_queue, t, {"server_initialized"}) = 1

\* The state the automatic stop leaves.
StoppedAutomatically(s) ==
    /\ s \notin DOMAIN processes
    /\ server_status[s].status = "stopped"
    /\ tools[s] = <<>> /\ resources[s] = <<>> /\ prompts[s] = <<>>
    /\ event_queue[Len(event_queue)] = Event("server_stopped", s, 0, <<>>)

\* C16: when no caller calls stop_server, the unexpected exit of the child of
\* a session whose handshake has completed leads to the automatic stop: the
\* session is removed, the catalogs are emptied, the status becomes "stopped"
\* and server_stopped is emitted.
C16_ExitLeadsToAutoStop ==
    \A s \in ServerIds : ExitedUnexpectedly(s) ~> StoppedAutomatically(s)

\* Task t is in the send path of _send_message: its id is allocated and its
\* write or its flush has been handed to the executor and has not returned.
InSendPath(t) == tasks[t].pc \in {"write", "flush"}

\* C17: the send path of a session is a critical section: no two
\* _send_message calls on the same session are at once between the allocation
\* of their id and the return of their flush.
C17_SendsSerialized ==
    \A t1, t2 \in DOMAIN tasks :
        (t1 # t2 /\ InSendPath(t1) /\ InSendPath(t2)) => tasks[t1].child # tasks[t2].child

\* The step in which call_tool, read_resource or get_prompt call t resumes
\* from a wait whose deadline has passed.
DispatchTimesOut(t) ==
    /\ tasks[t].op \in DispatchOps
    /\ tasks[t].pc = "wait"
    /\ tasks[t].fut = "cancelled"
    /\ tasks'[t] # tasks[t]

\* C18: the timeout of a dispatch call removes the call's own pending entry
\* and nothing else: the session, the child, the status with its pid, the
\* catalogs and the other pending entries are as before.
C18_TimeoutKeepsChild ==
    [][\A t \in DOMAIN tasks :
        DispatchTimesOut(t) =>
            /\ tasks'[t].error = "Timeout"
            /\ pending_requests' =
                    [pending_requests EXCEPT ![tasks[t].sid] = Without(@, tasks[t].id)]
            /\ UNCHANGED <<children, processes, server_status, tools, resources, prompts,
                           request_counters>>]_vars

\* A call_tool call has timed out while start_server was waiting for a reply
\* it had asked for earlier, and is still waiting for it.
C18_Witness ==
    \E t1, t2 \in DOMAIN tasks :
        /\ tasks[t2].op = "call_tool" /\ tasks[t2].error = "Timeout"
        /\ tasks[t1].op = "start_server" /\ tasks[t1].sid = tasks[t2].sid
        /\ tasks[t1].pc = "wait" /\ tasks[t1].fut = "pending"
        /\ tasks[t1].id \in DOMAIN pending_requests[tasks[t1].sid]
        /\ request_counters[tasks[t1].sid] = tasks[t1].id + 1
        /\ CanSend(tasks[t1].sid)
        /\ server_status[tasks[t1].sid].status = "running"

\* The catalog the loader of `method` fills, among the three given.
CatalogOf(method, s, tl, rs, pr) ==
    CASE method = "tools/list"     -> tl[s]
      [] method = "resources/list" -> rs[s]
      [] method = "prompts/list"   -> pr[s]

\* The step in which start_server call t resumes from the wait of a list
\* request.
LoaderResumes(t) ==
    /\ tasks[t].op = "start_server"
    /\ tasks[t].stage \in ListMethods
    /\ tasks[t].pc = "wait"
    /\ tasks[t].fut \in {"cancelled", "result"}
    /\ tasks'[t] # tasks[t]

\* The list request failed: its deadline passed or the reply is an error.
LoaderFailed(t) ==
    tasks[t].fut = "cancelled" \/ tasks[t].response.error

\* C19: a list request of capability loading that fails by timeout or by an
\* error reply leaves its catalog empty, one that succeeds fills its catalog
\* from the reply; either way the other catalogs, the state of the server,
\* its session and its child are left alone and loading goes on.  When the
\* last loader has ended, start_server writes the sizes of the three catalogs
\* in the counts and emits its one server_capabilities_loaded with them.
C19_PartialLoading ==
    [][\A t \in DOMAIN tasks :
        LoaderResumes(t) =>
            LET s == tasks[t].sid
                method == tasks[t].stage
            IN
            /\ CatalogOf(method, s, tools', resources', prompts') =
                    IF LoaderFailed(t) THEN <<>> ELSE Catalog(tasks[t].response.items, s)
            /\ \A m \in ListMethods \ {method} :
                    CatalogOf(m, s, tools', resources', prompts') =
                        CatalogOf(m, s, tools, resources, prompts)
            /\ server_status'[s].status = server_status[s].status
            /\ UNCHANGED <<processes, children>>
            /\ Emitted(event_queue', t, {"server_init_error", "server_error"}) = 0
            /\ IF tasks'[t].pc = "done"
               THEN /\ tasks'[t].ret = "true"
                    /\ server_status'[s].tools_count = Len(tools'[s])
                    /\ server_status'[s].resources_count = Len(resources'[s])
                    /\ server_status'[s].prompts_count = Len(prompts'[s])
                    /\ Emitted(event_queue', t, {"server_capabilities_loaded"}) = 1
                    /\ event_queue'[Len(event_queue')] =
                            Event("server_capabilities_loaded", s, t,
                                  <<Len(tools'[s]), Len(resources'[s]), Len(prompts'[s])>>)
               ELSE /\ tasks'[t].stage = NextMethod(method)
                    /\ Emitted(event_queue', t, {"server_capabilities_loaded"}) = 0]_vars

\* start_server has returned from a running server after loading one tool,
\* while its resources/list request, never answered, timed out.
C19_Witness ==
    \E t \in DOMAIN tasks :
        /\ tasks[t].op = "start_server" /\ tasks[t].pc = "done"
        /\ Emitted(event_queue, t, {"server_capabilities_loaded"}) = 1
        /\ server_status[tasks[t].sid].status = "running"
        /\ server_status[tasks[t].sid].tools_count = 1
        /\ Len(tools[tasks[t].sid]) = 1
        /\ resources[tasks[t].sid] = <<>>
        /\ CanSend(tasks[t].sid)
        /\ \E request \in children[processes[tasks[t].sid]].inbox :
                request.method = "resources/list"

\* C20: a line the monitor reads whose id is that of a pending request still
\* waiting for its reply completes that request with the line and removes
\* its entry, whatever else the line holds, and changes no other entry and
\* no other caller.
C20_InboundDispatch ==
    [][\A c \in DOMAIN children :
        LET s == children[c].sid
            line == Head(children[c].pipe)
            t == pending_requests[s][line.id]
        IN
        (ReadsLine(c) /\ line.id \in DOMAIN pending_requests[s] /\ tasks[t].fut = "pending") =>
            /\ pending_requests' = [pending_requests EXCEPT ![s] = Without(@, line.id)]
            /\ tasks' = [tasks EXCEPT ![t].fut = "result", ![t].response = line]]_vars

\* The step in which dispatch task t resumes with the reply to its request.
DispatchResumes(t) ==
    /\ tasks[t].op \in DispatchOps
    /\ tasks[t].pc = "wait"
    /\ tasks[t].fut = "result"
    /\ tasks'[t].pc = "done"

\* C21: a call_tool, read_resource or get_prompt call whose reply carries a
\* result returns it, having emitted exactly one event, the success event of
\* its operation, and no error event; so does a read_resource call whose
\* reply has no contents.
C21_SuccessEmitsOneEvent ==
    [][\A t \in DOMAIN tasks :
            (DispatchResumes(t) /\ ~tasks[t].response.error) =>
                /\ tasks'[t].ret = "result"
                /\ Emitted(event_queue', t, {SuccessEvent(tasks[t].op)}) = 1
                /\ Emitted(event_queue', t, {ErrorEvent(tasks[t].op)}) = 0
                /\ Len(event_queue') = Len(event_queue) + 1]_vars

\* C22: a call_tool, read_resource or get_prompt call whose reply carries an
\* error raises to its caller, having emitted exactly one event, the error
\* event of its operation, and no success event; the status, the session and
\* the catalogs of the server are left as they were.
C22_ErrorReplyFailsCall ==
    [][\A t \in DOMAIN tasks :
            (DispatchResumes(t) /\ tasks[t].response.error) =>
                /\ tasks'[t].ret = "raised"
                /\ tasks'[t].error = "RpcError"
                /\ tasks[t].op = "call_tool" =>
                        Emitted(event_queue', t, {"tool_error"}) = 1
                /\ tasks[t].op = "read_resource" =>
                        Emitted(event_queue', t, {"resource_error"}) = 1
                /\ tasks[t].op = "get_prompt" =>
                        Emitted(event_queue', t, {"prompt_error"}) = 1
                /\ Emitted(event_queue', t,
                           {"tool_executed", "resource_read", "prompt_retrieved"}) = 0
                /\ Len(event_queue') = Len(event_queue) + 1
                /\ UNCHANGED <<server_status, processes, tools, resources, prompts>>]_vars

\* A get_prompt call was answered with an error and raised it while the
\* server is running with a session and a catalog.
C22_Witness ==
    \E t \in DOMAIN tasks :
        /\ tasks[t].op = "get_prompt"
        /\ tasks[t].error = "RpcError"
        /\ tasks[t].sid \in DOMAIN processes
        /\ server_status[tasks[t].sid].status = "running"
        /\ tools[tasks[t].sid] # <<>>

\* The step of a load_config call.
Reloads == reloads' = reloads + 1

\* Server s is running with a session.
RunningSession(s) ==
    /\ s \in DOMAIN server_status
    /\ server_status[s].status = "running"
    /\ s \in DOMAIN processes

\* C23: when servers a and b are both running and the file lists b and c, a
\* load_config call stops a (its child is terminated, its session removed and
\* server_stopped emitted), leaves b's status and session as they were, and
\* gives c a status in state "stopped".
C23_ReloadReplacesServer ==
    [][(/\ Reloads
        /\ servers = DocAB
        /\ config_file = ConfigFile(DocBC)
        /\ RunningSession("a")
        /\ RunningSession("b")) =>
            /\ servers' = DocBC
            /\ "a" \notin DOMAIN processes'
            /\ ~Alive(children', processes["a"])
            /\ EventsOf(event_queue', "a", {"server_stopped"})
                    = EventsOf(event_queue, "a", {"server_stopped"}) + 1
            /\ server_status'["b"] = server_status["b"]
            /\ "b" \in DOMAIN processes' /\ processes'["b"] = processes["b"]
            /\ Alive(children', processes["b"])
            /\ "c" \in DOMAIN server_status'
            /\ server_status'["c"].status = "stopped"]_vars

\* C24: a load_config call on a file whose document equals the descriptors in
\* force leaves the descriptors equal and leaves every running session as it
\* was: its status record (state, pid, started_at, counts), its entry in
\* processes and its catalogs.
C24_IdenticalReloadIsNoOp ==
    [][(Reloads /\ config_file = ConfigFile(servers)) =>
            /\ servers' = servers
            /\ \A s \in DOMAIN servers :
                    RunningSession(s) =>
                        /\ server_status'[s] = server_status[s]
                        /\ s \in DOMAIN processes' /\ processes'[s] = processes[s]
                        /\ tools'[s] = tools[s]
                        /\ resources'[s] = resources[s]
                        /\ prompts'[s] = prompts[s]]_vars

\* C25: a load_config call on a file that exists and is not JSON changes no
\* descriptor, status, session or catalog, and emits config_error and nothing
\* else.
C25_InvalidFileChangesNothing ==
    [][(Reloads /\ config_file.exists /\ ~config_file.json) =>
            /\ UNCHANGED <<servers, server_status, processes, children, tools, resources,
                           prompts>>
            /\ Len(event_queue') = Len(event_queue) + 1
            /\ event_queue'[Len(event_queue')].type = "config_error"
            /\ SubSeq(event_queue', 1, Len(event_queue)) = event_queue]_vars

\* load_config has met a file that is not JSON while a server was running
\* with a session.
C25_Witness ==
    /\ Len(event_queue) > 0
    /\ event_queue[Len(event_queue)].type = "config_error"
    /\ \E s \in DOMAIN servers : RunningSession(s)

\* C26: at every quiescent point the descriptor map and the status map have
\* the same keys, whatever load_config calls were made.
C26_DescriptorsAndStatusesAgree ==
    Quiescent => DOMAIN servers = DOMAIN server_status

\* C27: a load_config call that finds no file leaves the manager with no
\* descriptors, whatever descriptors it had.
C27_AbsentFileYieldsEmptySet ==
    [][(Reloads /\ ~config_file.exists) => DOMAIN servers' = {}]_vars

\* C28: a stop_server call that returns True had a session to stop; it sent
\* SIGTERM to a child still alive, and SIGKILL only to a child that does not
\* exit on SIGTERM within the wait; when it returns the child is not alive,
\* the session entry is gone and the state is "stopped".
C28_StopProtocol ==
    [][\A s \in AllIds :
            (StopCalled(s) /\ tasks'[Len(tasks')].ret = "true") =>
                /\ s \in DOMAIN processes
                /\ ~Alive(children', processes[s])
                /\ IF Alive(children, processes[s])
                   THEN /\ children'[processes[s]].signalled
                        /\ children'[processes[s]].returncode = "killed"
                                <=> children[processes[s]].command = DeafCommand
                   ELSE children'[processes[s]].returncode
                            = children[processes[s]].returncode
                /\ s \notin DOMAIN processes'
                /\ server_status'[s].status = "stopped"]_vars

\* stop_server returned True for a server whose child ignored SIGTERM and
\* was killed.
C28_Witness ==
    \E t \in DOMAIN tasks, c \in DOMAIN children :
        /\ tasks[t].op = "stop_server" /\ tasks[t].ret = "true"
        /\ children[c].sid = tasks[t].sid
        /\ children[c].signalled
        /\ children[c].returncode = "killed"
        /\ tasks[t].sid \notin DOMAIN processes

\* The types of the events about server s, in order.
TypesAbout(queue, s) ==
    LET about == SelectSeq(queue, LAMBDA e : e.server_id = s)
    IN [i \in 1..Len(about) |-> about[i].type]

\* The position in the queue of the last server_stopped about s, 0 if none.
LastStopped(queue, s) ==
    LET stops == {i \in 1..Len(queue) :
                    queue[i].server_id = s /\ queue[i].type = "server_stopped"}
    IN IF stops = {} THEN 0 ELSE CHOOSE i \in stops : \A j \in stops : j <= i

\* A restart of s has returned: the last start_server call for s follows the
\* last stop_server call for s that returned True, and has returned.
RestartReturned(s) ==
    \E t1, t2 \in DOMAIN tasks :
        /\ tasks[t1].op = "stop_server" /\ tasks[t1].sid = s /\ tasks[t1].ret = "true"
        /\ tasks[t2].op = "start_server" /\ tasks[t2].sid = s /\ tasks[t2].pc = "done"
        /\ t1 < t2
        /\ \A u \in DOMAIN tasks :
                (u > t2 /\ tasks[u].sid = s) => tasks[u].op \notin {"start_server", "stop_server"}

\* The server was stopped last when it was running and no start_server call
\* was in flight: the event about s before that server_stopped is
\* server_capabilities_loaded, and every start_server call that had emitted
\* server_starting had emitted the event it returns after.
StoppedWhenStarted(s) ==
    LET k == LastStopped(event_queue, s) IN
    /\ \E j \in 1..(k - 1) :
            /\ event_queue[j].server_id = s
            /\ event_queue[j].type = "server_capabilities_loaded"
            /\ \A i \in (j + 1)..(k - 1) : event_queue[i].server_id # s
    /\ \A i \in 1..(k - 1) :
            (event_queue[i].server_id = s /\ event_queue[i].type = "server_starting") =>
                \E j \in (i + 1)..(k - 1) :
                    /\ event_queue[j].task = event_queue[i].task
                    /\ event_queue[j].type \in {"server_capabilities_loaded",
                                                "server_init_error", "server_error"}

\* C29: once the restart of a server that was running, its start completed,
\* has returned, the events about the server from the stop on are
\* server_stopped, server_starting, server_started, server_initialized,
\* server_capabilities_loaded, in this order, and the server is running with
\* a session whose child is alive.
C29_RestartSequence ==
    \A s \in DOMAIN servers :
        (RestartReturned(s) /\ StoppedWhenStarted(s)) =>
            /\ TypesAbout(SubSeq(event_queue, LastStopped(event_queue, s),
                                 Len(event_queue)), s)
                    = <<"server_stopped", "server_starting", "server_started",
                        "server_initialized", "server_capabilities_loaded">>
            /\ server_status[s].status = "running"
            /\ s \in DOMAIN processes
            /\ Alive(children, processes[s])

\* A running server has been restarted and the restart has returned.
C29_Witness ==
    \E s \in DOMAIN servers :
        /\ RestartReturned(s)
        /\ StoppedWhenStarted(s)
        /\ Len(children) = 2
        /\ server_status[s].tools_count = 1

\* auto_start_servers has returned its list.
AutoStartReturned == ToAttempt = {} /\ \A t \in DOMAIN tasks : tasks[t].pc = "done"

\* C30: when auto_start_servers returns, start_server has been called for
\* every server whose descriptor has auto_start set and for no other, and the
\* list returned holds exactly the servers whose start_server call returned
\* True.
C30_AutoStartListsSuccesses ==
    AutoStartReturned =>
        /\ Attempted = {s \in DOMAIN servers : servers[s].auto_start}
        /\ {StartedServers[i] : i \in DOMAIN StartedServers}
                = {tasks[t].sid : t \in {u \in DOMAIN tasks :
                        tasks[u].op = "start_server" /\ tasks[u].ret = "true"}}

\* The step in which the application shuts down.
ShutsDown ==
    /\ Len(tasks') = Len(tasks) + 1
    /\ tasks'[Len(tasks')].op = "shutdown"

\* C31: shutdown stops every server that has a session when it begins: after
\* it no session remains, every such server's child is gone, its state is
\* "stopped" and one server_stopped was emitted for it.
C31_ShutdownStopsAll ==
    [][ShutsDown =>
            /\ DOMAIN processes' = {}
            /\ \A s \in DOMAIN processes :
                    /\ ~Alive(children', processes[s])
                    /\ server_status'[s].status = "stopped"
                    /\ EventsOf(event_queue', s, {"server_stopped"})
                            = EventsOf(event_queue, s, {"server_stopped"}) + 1
            /\ Len(event_queue') = Len(event_queue) + Cardinality(DOMAIN processes)]_vars

\* The application shut down while two servers had sessions.
C31_Witness ==
    /\ \E t \in DOMAIN tasks : tasks[t].op = "shutdown"
    /\ Len(event_queue) >= 2
    /\ event_queue[Len(event_queue) - 1].type = "server_stopped"
    /\ event_queue[Len(event_queue)].type = "server_stopped"
    /\ event_queue[Len(event_queue) - 1].server_id # event_queue[Len(event_queue)].server_id
    /\ processes = << >>

\* The step in which start_server(s) is called.
StartCalled(s) ==
    /\ Len(tasks') = Len(tasks) + 1
    /\ tasks'[Len(tasks')].op = "start_server"
    /\ tasks'[Len(tasks')].sid = s

\* C33: start_server with an id that is not in the descriptor map raises
\* UnknownServer and changes nothing: no child, no event, and the descriptors,
\* statuses, sessions and catalogs are as before.
C33_UnknownServer ==
    [][\A s \in AllIds :
            (StartCalled(s) /\ s \notin DOMAIN servers) =>
                /\ tasks'[Len(tasks')].ret = "raised"
                /\ tasks'[Len(tasks')].error = "UnknownServer"
                /\ UNCHANGED <<children, event_queue, servers, server_status, processes,
                               tools, resources, prompts, request_counters,
                               pending_requests>>]_vars

\* start_server was called with an unknown id while another server was running.
C33_Witness ==
    \E t \in DOMAIN tasks :
        /\ tasks[t].op = "start_server"
        /\ tasks[t].error = "UnknownServer"
        /\ tasks[t].sid \notin DOMAIN servers
        /\ processes # << >>

\* C32: the event queue has a capacity, and the number of events queued and
\* not yet taken never exceeds it.
C32_EventBusBounded ==
    QueueMaxsize > 0 /\ Queued(event_queue) <= QueueMaxsize

\* Sequence a occurs in sequence b, in order.
IsSubSeq(a, b) ==
    \E f \in [1..Len(a) -> 1..Len(b)] :
        /\ \A i \in 1..Len(a) : b[f[i]] = a[i]
        /\ \A i \in 1..(Len(a) - 1) : f[i] < f[i + 1]

\* C37: every subscriber has received events in the order they were put, and
\* of the events put since it connected, every one that has left the queue
\* is among those it received.
C37_EverySubscriberGetsEveryEvent ==
    \A j \in DOMAIN subscribers :
        LET got == subscribers[j].received
            taken == Taken(subscribers)
            n == IF taken > subscribers[j].since THEN taken - subscribers[j].since ELSE 0
        IN /\ IsSubSeq(got, event_queue)
           /\ Len(got) >= n
           /\ SubSeq(got, Len(got) - n + 1, Len(got))
                = SubSeq(event_queue, taken - n + 1, taken)

\* The step in which the monitor of child c runs its finally clause.
MonitorCleansUp(c) ==
    /\ children[c].monitor = "active"
    /\ children'[c].monitor = "done"

\* C34: the cleanup of the monitor of an earlier child leaves the session a
\* later start_server call made for the same id as it is: its entry, its
\* child, and the server's status.
C34_MonitorStopsOwnSession ==
    [][\A c \in DOMAIN children :
            (/\ MonitorCleansUp(c)
             /\ children[c].sid \in DOMAIN processes
             /\ processes[children[c].sid] # c) =>
                /\ children[c].sid \in DOMAIN processes'
                /\ processes'[children[c].sid] = processes[children[c].sid]
                /\ Alive(children, processes[children[c].sid])
                        => Alive(children', processes[children[c].sid])
                /\ server_status'[children[c].sid]
                        = server_status[children[c].sid]]_vars

\* C35: the timeout of the handshake of a start_server call whose child is no
\* longer the server's session leaves the newer session as it is: its entry
\* stays, its child gets no signal, and the status does not become "error".
C35_HandshakeFailureOwnSession ==
    [][\A t \in DOMAIN tasks :
            (/\ HandshakeFails(t)
             /\ tasks[t].pc = "wait" /\ tasks[t].fut = "cancelled"
             /\ tasks[t].sid \in DOMAIN processes
             /\ processes[tasks[t].sid] # tasks[t].child) =>
                /\ tasks[t].sid \in DOMAIN processes'
                /\ processes'[tasks[t].sid] = processes[tasks[t].sid]
                /\ children'[processes[tasks[t].sid]] = children[processes[tasks[t].sid]]
                /\ server_status'[tasks[t].sid].status # "error"]_vars

\* The tasks a behaviour can hold, and the methods _send_message is called with.
TaskSlots == 1..MaxStarts

SentMethods == {"initialize", "notifications/initialized"} \cup ListMethods

\* Task t is inside the _send_message call for `method`.
InSendMessage(t, method) ==
    /\ t \in DOMAIN tasks
    /\ tasks[t].stage = method
    /\ tasks[t].pc \in {"write", "flush", "wait"}

\* C36: every _send_message call completes: the task that is inside it at its
\* write, its flush or its wait leaves it, with the reply or with a failure.
C36_EverySendCompletes ==
    \A t \in TaskSlots, method \in SentMethods :
        InSendMessage(t, method) ~> ~InSendMessage(t, method)

\* The part of C36 that holds: a call that has reached its wait completes.
C36_EveryWaitCompletes ==
    \A t \in TaskSlots, method \in SentMethods :
        (InSendMessage(t, method) /\ tasks[t].pc = "wait") ~> ~InSendMessage(t, method)

\* start_server call t has returned.
StartReturned(t) == tasks[t].op = "start_server" /\ tasks[t].pc = "done"

\* C38: a start_server call that returned False spawned no child and emitted
\* server_error and no server_init_error; a call that spawned a child returned
\* True, also when its handshake failed.
C38_FalseOnlyBeforeSpawn ==
    \A t \in DOMAIN tasks : StartReturned(t) =>
        /\ tasks[t].ret = "false" =>
                /\ SpawnedBy(event_queue, t) = 0
                /\ Emitted(event_queue, t, {"server_error"}) = 1
                /\ Emitted(event_queue, t, {"server_init_error"}) = 0
        /\ SpawnedBy(event_queue, t) # 0 => tasks[t].ret = "true"

\* A call has returned True after a failed handshake: the server is in state
\* "error" and has no session.
C38_Witness ==
    \E t \in DOMAIN tasks :
        /\ StartReturned(t)
        /\ tasks[t].ret = "true"
        /\ SpawnedBy(event_queue, t) # 0
        /\ Emitted(event_queue, t, {"server_init_error"}) = 1
        /\ server_status[tasks[t].sid].status = "error"
        /\ tasks[t].sid \notin DOMAIN processes

\* The start_server calls made for s so far.
StartCalls(s) == {t \in DOMAIN tasks : tasks[t].op = "start_server" /\ tasks[t].sid = s}

\* No session of s has been torn down and no spawn for s has failed: nothing
\* has been emitted by stop_server or by an except clause.
NeverTornDown(s) ==
    EventsOf(event_queue, s, {"server_stopped", "server_init_error", "server_error"}) = 0

\* C39: of the start_server calls made for a stopped server s, up to the first
\* teardown of its session, exactly one spawned a child and emitted
\* server_starting and server_started, once each; every other call has
\* returned True at once, with no child and no event.
C39_ConcurrentStartsSpawnOnce ==
    \A s \in ServerIds :
        (StartCalls(s) # {} /\ NeverTornDown(s)) =>
            /\ Cardinality({c \in DOMAIN children : children[c].sid = s}) = 1
            /\ EventsOf(event_queue, s, {"server_starting"}) = 1
            /\ EventsOf(event_queue, s, {"server_started"}) = 1
            /\ \E t1 \in StartCalls(s) :
                    /\ SpawnedBy(event_queue, t1) # 0
                    /\ Emitted(event_queue, t1, {"server_starting"}) = 1
                    /\ \A t2 \in StartCalls(s) \ {t1} :
                            /\ tasks[t2].pc = "done"
                            /\ tasks[t2].ret = "true"
                            /\ SpawnedBy(event_queue, t2) = 0
                            /\ \A i \in 1..Len(event_queue) : event_queue[i].task # t2

\* A second start_server call has returned while the first, which spawned the
\* child, is still in its handshake.
C39_Witness ==
    \E s \in ServerIds : \E t1, t2 \in StartCalls(s) :
        /\ NeverTornDown(s)
        /\ t1 < t2
        /\ tasks[t1].pc # "done"
        /\ tasks[t1].stage = "initialize"
        /\ tasks[t2].pc = "done"
        /\ tasks[t2].ret = "true"

\* C40: no step lowers a request counter, so the ids assigned for a server
\* are strictly increasing across all of its sessions, and a reply completes
\* only a request that was sent to the child the reply came from.
C40_IdsUniqueAcrossSessions ==
    [][/\ \A s \in DOMAIN request_counters : request_counters'[s] >= request_counters[s]
       /\ \A s \in DOMAIN assigned' : \A i, j \in 1..Len(assigned'[s]) :
                i < j => assigned'[s][i] < assigned'[s][j]
       /\ \A t \in DOMAIN tasks :
                (tasks[t].fut = "pending" /\ tasks'[t].fut = "result") =>
                    /\ tasks'[t].response.id = tasks[t].id
                    /\ children'[tasks[t].child].pipe # children[tasks[t].child].pipe]_vars

\* A server is in its second session after a stop_server: the request of the
\* second session is pending under an id above the one of the first session,
\* whose reply has been delivered to the call that sent it.
C40_Witness ==
    \E s \in ServerIds : \E t1, t2 \in DOMAIN tasks :
        /\ TrueStops(s) > 0
        /\ s \in DOMAIN processes
        /\ tasks[t2].child = processes[s]
        /\ tasks[t2].fut = "pending"
        /\ tasks[t1].child # 0
        /\ tasks[t1].child # processes[s]
        /\ tasks[t1].fut = "result"
        /\ tasks[t1].id < tasks[t2].id

====
